---- MODULE Spec2Model ----
(***************************************************************************)
(* git-around: batch git housekeeping over the repositories of a YAML      *)
(* configuration (src/git-around.py).                                      *)
(*                                                                         *)
(* Two specifications:                                                     *)
(*   Spec     - GitAround.run: housekeeping mode and staleness mode, with  *)
(*              the --dry-run flag, over a resolved list of RepoConfig.    *)
(*   SpecLoad - GitAroundConfig.load_from_file: the resolution of the      *)
(*              parsed configuration into the list of RepoConfig.          *)
(***************************************************************************)
EXTENDS Integers, Sequences, FiniteSets, TLC

(***************************************************************************)
(* Bounds of the model.                                                    *)
(***************************************************************************)
MaxRepos == 2          \* longest resolved repository list of Spec
MaxCommands == 2       \* longest 'commands' list of a repository
MaxDays == 1           \* largest --stale threshold
MaxEntries == 2        \* longest 'repos' list of the configuration (SpecLoad)
MaxListing == 2        \* most entries of the listed directory /w (SpecLoad)

(***************************************************************************)
(* Program constants.                                                      *)
(***************************************************************************)
SecondsPerDay == 86400

VARIABLES
    repos,        \* self.config.repos: sequence of RepoConfig
    dry_run,      \* self.dry_run
    stale_days,   \* self.stale_days: None or Some(d)
    fs,           \* the filesystem: what lies at each repository path, and
                  \* whether their parent directory can be searched
    fs_changed,   \* whether the filesystem has changed since the run began
    pc,           \* the position of the interpreter
    idx,          \* index of repo_cfg in the loop over self.config.repos
    step,         \* index in the loop of _process_repo the interpreter is at
    cutoff,       \* _report_stale's cutoff
    last,         \* _report_stale's last: the last parsed commit time, -1 if none
    gitmodules,   \* what .gitmodules' exists() answered at the last classification
                  \* (FALSE when it was not asked)
    exc,          \* the exception that ended the process, or "none"
    returncode,   \* result.returncode of the last finished subprocess, -1 if none
    failed,       \* whether a "Command failed" error has been reported
    child_failed, \* whether a started child has exited with a non-zero code
    status,       \* per repository: what the loop did with it
    issued,       \* per repository: the calls of _run_command, in order
    described,    \* the "[DRY RUN] Would execute" lines, in order
    launched,     \* the subprocesses started, in order
    log,          \* warnings and STALE reports, in order
    data,         \* SpecLoad: the parsed configuration's 'repos' list
    disk,         \* SpecLoad: the directory entries, in listing order
    entry_i       \* SpecLoad: index of entry in the loop of load_from_file

vars == <<repos, dry_run, stale_days, fs, fs_changed, pc, idx, step,
          cutoff, last, gitmodules, exc, returncode, failed, child_failed, status,
          issued, described, launched, log, data, disk, entry_i>>

loadVars == <<data, disk, entry_i>>


(***************************************************************************)
(* Values.                                                                 *)
(***************************************************************************)
None == <<>>                       \* stale_days when --stale is absent
Some(d) == <<d>>                   \* stale_days when --stale gives d
Scaled(d, k) == <<d, k>>           \* stale_days when --stale gives d * 10^k, a
                                   \* number beyond the integers of the model

Paths == {"/w/a", "/w/b"}          \* the repository paths of Spec
Parent == "/w"                     \* their parent directory
\* At a repository path lies nothing ("absent") or a directory ("dir"); the
\* parent is a directory that can be searched ("dir") or one without search
\* permission ("denied"), under which no path can be looked up.
FsKinds == {"absent", "dir", "denied"}
ShellCommands == {"c1", "c2"}      \* the strings a 'commands' list may hold
ReturnCodes == {0, 1}              \* exit codes of a subprocess that started
Now == 10 * SecondsPerDay          \* time.time() when _report_stale starts

GitPull == <<"git", "pull">>
GitClean == <<"git", "clean", "-fd">>
GitSubmodule == <<"git", "submodule", "update", "--init", "--recursive">>
GitPush == <<"git", "push">>
GitLog == <<"git", "log", "-1", "--format=%ct">>

\* All sequences over S of length at most n.
SeqsUpTo(S, n) == UNION {[1..k -> S] : k \in 0..n}

\* RepoConfig.__init__ (commands is a sequence; 'commands or []' keeps it).
RepoConfig(path, auto_pull, auto_push, clean, update_submodules, commands) ==
    [path |-> path, auto_pull |-> auto_pull, auto_push |-> auto_push,
     clean |-> clean, update_submodules |-> update_submodules,
     commands |-> commands]

\* Path.is_dir() and Path.exists() on the filesystem f: the answer, or the
\* PermissionError of a path that cannot be looked up (a missing path is no
\* error and answers False).
is_dir(f, path) ==
    IF f[Parent] = "denied"
      THEN [exc |-> "PermissionError", value |-> FALSE]
      ELSE [exc |-> "none", value |-> f[path] = "dir"]

(***************************************************************************)
(* GitAround.run: the choice of the mode.                                  *)
(***************************************************************************)
stale_mode_truthy(sd) == sd # None /\ sd[1] # 0
stale_mode(sd) == sd # None

(***************************************************************************)
(* GitAround.run: the directory check of the housekeeping loop.            *)
(***************************************************************************)
\* Line 115: 'not repo_cfg.path.is_dir()', or the exception of is_dir.
skip_repo(f, repo_cfg) ==
    LET checked == is_dir(f, repo_cfg.path)
    IN  [exc |-> checked.exc, skip |-> ~checked.value]

(***************************************************************************)
(* GitAround._process_repo: the table of git tasks.                        *)
(***************************************************************************)
git_tasks_push_first(repo) ==
    << [cmd_args |-> GitPush, enabled |-> repo.auto_push],
       [cmd_args |-> GitPull, enabled |-> repo.auto_pull],
       [cmd_args |-> GitClean, enabled |-> repo.clean] >>
git_tasks(repo) ==
    << [cmd_args |-> GitPull, enabled |-> repo.auto_pull],
       [cmd_args |-> GitClean, enabled |-> repo.clean],
       [cmd_args |-> GitSubmodule, enabled |-> repo.update_submodules] >>

(***************************************************************************)
(* GitAround._run_command.                                                 *)
(***************************************************************************)
desc(shell) == IF shell THEN "shell" ELSE "git"

\* subprocess.run and subprocess.check_output start the child iff cwd is a
\* directory and the system lets the process enter it and execute the program
\* (git, or /bin/sh for a shell string): can_exec.  Otherwise they raise an
\* OSError (FileNotFoundError, NotADirectoryError, PermissionError).
subprocess_starts(f, cwd, can_exec) == is_dir(f, cwd).value /\ can_exec

\* What _run_command raises once the child has exited with rc.  The exit code
\* raises nothing (no check=True); text=True decodes the captured output, and
\* output that does not decode raises UnicodeDecodeError whatever the code.
command_exception(rc, decodes) == IF decodes THEN "none" ELSE "UnicodeDecodeError"

\* The filesystems a child process may leave behind: while it runs, the
\* child or another process may remove and create repository directories and
\* take the search permission of the parent directory.
after_child(f) ==
    { [p \in Paths \cup {Parent} |-> IF p = Parent THEN up ELSE at[p]] :
      up \in {f[Parent], "denied"}, at \in [Paths -> {"absent", "dir"}] }

\* The dry-run branch of _run_command: describe, start nothing.
dry_run_branch(dry, shell) == dry

run_command(cmd, shell, cwd) ==
    /\ issued' = [issued EXCEPT ![idx] =
                     Append(@, [cmd |-> cmd, shell |-> shell, cwd |-> cwd])]
    /\ IF dry_run_branch(dry_run, shell)
         THEN /\ described' = Append(described,
                                [desc |-> desc(shell), cmd |-> cmd, cwd |-> cwd])
              /\ UNCHANGED <<launched, returncode, failed, child_failed, exc,
                             fs, fs_changed>>
         ELSE \E can_exec \in BOOLEAN :
                IF ~subprocess_starts(fs, cwd, can_exec)
                  THEN /\ exc' = "OSError"
                       /\ UNCHANGED <<described, launched, returncode, failed,
                                      child_failed, fs, fs_changed>>
                  ELSE \E rc \in ReturnCodes, decodes \in BOOLEAN,
                          left \in after_child(fs) :
                         /\ launched' = Append(launched,
                                [cmd |-> cmd, shell |-> shell, cwd |-> cwd])
                         /\ fs' = left
                         /\ fs_changed' = (fs_changed \/ left # fs)
                         /\ child_failed' = (child_failed \/ rc # 0)
                         /\ exc' = command_exception(rc, decodes)
                         /\ IF exc' = "none"
                              THEN /\ returncode' = rc
                                   /\ failed' = (failed \/ rc # 0)
                              ELSE UNCHANGED <<returncode, failed>>
                         /\ UNCHANGED described

no_command ==
    UNCHANGED <<issued, described, launched, returncode, failed, child_failed, exc,
                fs, fs_changed>>

(***************************************************************************)
(* GitAround.run.                                                          *)
(***************************************************************************)
\* int -> float, as in 'time.time() - n': OverflowError when n rounds to
\* 2^1024 or more, that is when |n| >= 2^1024 - 2^970.  FloatOverflow holds
\* the decimal digits of that number; an integer is given by the values of
\* its decimal digits, most significant first.
FloatOverflow ==
    <<
      1, 7, 9, 7, 6, 9, 3, 1, 3, 4, 8, 6, 2, 3, 1, 5, 8, 0, 7, 9, 3, 7, 2, 8,
      9, 7, 1, 4, 0, 5, 3, 0, 3, 4, 1, 5, 0, 7, 9, 9, 3, 4, 1, 3, 2, 7, 1, 0,
      0, 3, 7, 8, 2, 6, 9, 3, 6, 1, 7, 3, 7, 7, 8, 9, 8, 0, 4, 4, 4, 9, 6, 8,
      2, 9, 2, 7, 6, 4, 7, 5, 0, 9, 4, 6, 6, 4, 9, 0, 1, 7, 9, 7, 7, 5, 8, 7,
      2, 0, 7, 0, 9, 6, 3, 3, 0, 2, 8, 6, 4, 1, 6, 6, 9, 2, 8, 8, 7, 9, 1, 0,
      9, 4, 6, 5, 5, 5, 5, 4, 7, 8, 5, 1, 9, 4, 0, 4, 0, 2, 6, 3, 0, 6, 5, 7,
      4, 8, 8, 6, 7, 1, 5, 0, 5, 8, 2, 0, 6, 8, 1, 9, 0, 8, 9, 0, 2, 0, 0, 0,
      7, 0, 8, 3, 8, 3, 6, 7, 6, 2, 7, 3, 8, 5, 4, 8, 4, 5, 8, 1, 7, 7, 1, 1,
      5, 3, 1, 7, 6, 4, 4, 7, 5, 7, 3, 0, 2, 7, 0, 0, 6, 9, 8, 5, 5, 5, 7, 1,
      3, 6, 6, 9, 5, 9, 6, 2, 2, 8, 4, 2, 9, 1, 4, 8, 1, 9, 8, 6, 0, 8, 3, 4,
      9, 3, 6, 4, 7, 5, 2, 9, 2, 7, 1, 9, 0, 7, 4, 1, 6, 8, 4, 4, 4, 3, 6, 5,
      5, 1, 0, 7, 0, 4, 3, 4, 2, 7, 1, 1, 5, 5, 9, 6, 9, 9, 5, 0, 8, 0, 9, 3,
      0, 4, 2, 8, 8, 0, 1, 7, 7, 9, 0, 4, 1, 7, 4, 4, 9, 7, 7, 9, 2 >>
significant(ds) ==
    IF \A k \in 1..Len(ds) : ds[k] = 0 THEN <<>>
    ELSE SubSeq(ds, CHOOSE k \in 1..Len(ds) :
                      ds[k] # 0 /\ \A j \in 1..(k - 1) : ds[j] = 0,
                Len(ds))
float_raises(ds) ==
    LET n == significant(ds)
    IN  \/ Len(n) > Len(FloatOverflow)
        \/ /\ Len(n) = Len(FloatOverflow)
           /\ \/ n = FloatOverflow
              \/ \E k \in 1..Len(n) :
                   /\ n[k] > FloatOverflow[k]
                   /\ \A j \in 1..(k - 1) : n[j] = FloatOverflow[j]

\* The decimal digits of n >= 0.
RECURSIVE digit_values(_)
digit_values(n) ==
    IF n < 10 THEN <<n>> ELSE Append(digit_values(n \div 10), n % 10)

\* Line 150: self.stale_days * 86400, by its decimal digits.
RECURSIVE Pow10(_)
Pow10(k) == IF k = 0 THEN 1 ELSE 10 * Pow10(k - 1)
days_of(sd) == IF Len(sd) = 2 THEN sd[1] * Pow10(sd[2]) ELSE sd[1]
seconds_digits(sd) ==
    digit_values(sd[1] * SecondsPerDay)
    \o (IF Len(sd) = 2 THEN [k \in 1..sd[2] |-> 0] ELSE <<>>)

\* Lines 109-112 and 150: the mode is chosen; _report_stale computes its
\* cutoff, and a threshold too large for a float ends the run.
run ==
    /\ pc = "run"
    /\ IF stale_mode(stale_days)
         THEN IF float_raises(seconds_digits(stale_days))
                THEN /\ exc' = "OverflowError"
                     /\ pc' = "aborted"
                     /\ UNCHANGED cutoff
                ELSE /\ pc' = "stale_loop"
                     /\ cutoff' = Now - days_of(stale_days) * SecondsPerDay
                     /\ UNCHANGED exc
         ELSE /\ pc' = "repo_loop"
              /\ UNCHANGED <<cutoff, exc>>
    /\ idx' = 1
    /\ UNCHANGED <<repos, dry_run, stale_days, fs, fs_changed, step, last, gitmodules,
                   returncode, failed, child_failed, status, issued, described, launched, log>>
    /\ UNCHANGED loadVars

\* Lines 113-118: one turn of the loop over self.config.repos; an exception
\* of the directory check is not caught.
run_loop ==
    /\ pc = "repo_loop"
    /\ IF idx > Len(repos)
         THEN /\ pc' = "done"
              /\ UNCHANGED <<idx, step, status, log, exc>>
         ELSE IF skip_repo(fs, repos[idx]).exc # "none"
           THEN /\ exc' = skip_repo(fs, repos[idx]).exc
                /\ pc' = "aborted"
                /\ UNCHANGED <<idx, step, status, log>>
         ELSE IF skip_repo(fs, repos[idx]).skip
           THEN /\ log' = Append(log, [kind |-> "NOT_A_DIRECTORY",
                                       path |-> repos[idx].path])
                /\ status' = [status EXCEPT ![idx] = "skipped"]
                /\ idx' = idx + 1
                /\ UNCHANGED <<pc, step, exc>>
           ELSE /\ status' = [status EXCEPT ![idx] = "entered"]
                /\ pc' = "git_tasks"
                /\ step' = 1
                /\ UNCHANGED <<idx, log, exc>>
    /\ UNCHANGED <<repos, dry_run, stale_days, fs, fs_changed, cutoff, last, gitmodules,
                   returncode, failed, child_failed, issued, described, launched>>
    /\ UNCHANGED loadVars

(***************************************************************************)
(* GitAround._process_repo.                                                *)
(***************************************************************************)
\* Lines 127-129: one turn of the loop over git_tasks.
process_git_task ==
    /\ pc = "git_tasks"
    /\ LET repo == repos[idx]
           task == git_tasks(repo)[step]
       IN  /\ IF task.enabled
                THEN run_command(task.cmd_args, FALSE, repo.path)
                ELSE no_command
           /\ IF exc' # "none"
                THEN pc' = "aborted" /\ UNCHANGED step
                ELSE IF step < Len(git_tasks(repo))
                  THEN pc' = "git_tasks" /\ step' = step + 1
                  ELSE pc' = "commands" /\ step' = 1
    /\ UNCHANGED <<repos, dry_run, stale_days, idx, cutoff, last, gitmodules,
                   status, log>>
    /\ UNCHANGED loadVars

\* Lines 130-131: one turn of the loop over repo.commands (or its end).
process_command ==
    /\ pc = "commands"
    /\ LET repo == repos[idx]
       IN  IF step > Len(repo.commands)
             THEN /\ no_command
                  /\ pc' = "push"
                  /\ UNCHANGED step
             ELSE /\ run_command(<<repo.commands[step]>>, TRUE, repo.path)
                  /\ IF exc' # "none"
                       THEN pc' = "aborted" /\ UNCHANGED step
                       ELSE pc' = "commands" /\ step' = step + 1
    /\ UNCHANGED <<repos, dry_run, stale_days, idx, cutoff, last, gitmodules,
                   status, log>>
    /\ UNCHANGED loadVars

\* Lines 132-133, and the return to the loop of run.
process_push ==
    /\ pc = "push"
    /\ LET repo == repos[idx]
       IN  IF repo.auto_push
             THEN run_command(GitPush, FALSE, repo.path)
             ELSE no_command
    /\ IF exc' # "none"
         THEN pc' = "aborted" /\ UNCHANGED <<idx, status>>
         ELSE /\ pc' = "repo_loop"
              /\ idx' = idx + 1
              /\ status' = [status EXCEPT ![idx] = "finished"]
    /\ UNCHANGED <<repos, dry_run, stale_days, step, cutoff, last, gitmodules, log>>
    /\ UNCHANGED loadVars


(***************************************************************************)
(* GitAround._report_stale.                                                *)
(***************************************************************************)
\* The text of the query's output is a sequence of Unicode code points.
Newline == 10
CarriageReturn == 13
PlusSign == 43
MinusSign == 45
DigitZero == 48
Underscore == 95

\* The code points c with chr(c).isspace(): what str.strip() removes.
Whitespace ==
    {
      9, 10, 11, 12, 13, 28, 29, 30, 31, 32, 133, 160, 5760, 8192, 8193,
      8194, 8195, 8196, 8197, 8198, 8199, 8200, 8201, 8202, 8232, 8233,
      8239, 8287, 12288 }

\* The code points of the zero of every run of ten Unicode decimal digits
\* (category Nd): the digits int accepts.
DecimalZeros ==
    {
      48, 1632, 1776, 1984, 2406, 2534, 2662, 2790, 2918, 3046, 3174, 3302,
      3430, 3558, 3664, 3792, 3872, 4160, 4240, 6112, 6160, 6470, 6608,
      6784, 6800, 6992, 7088, 7232, 7248, 42528, 43216, 43264, 43472,
      43504, 43600, 44016, 65296, 66720, 68912, 69734, 69872, 69942, 70096,
      70384, 70736, 70864, 71248, 71360, 71472, 71904, 72016, 72784, 73040,
      73120, 92768, 92864, 93008, 120782, 120792, 120802, 120812, 120822,
      123200, 123632, 125264, 130032 }

\* int raises ValueError on a string with more digits than this.
IntMaxStrDigits == 4300

\* What 'git log -1 --format=%ct' prints for a last commit at second n >= 0:
\* its decimal digits and a newline.
RECURSIVE digits_of(_)
digits_of(n) ==
    IF n < 10 THEN <<DigitZero + n>>
    ELSE Append(digits_of(n \div 10), DigitZero + (n % 10))
format_ct(n) == Append(digits_of(n), Newline)

\* text=True: "\r\n" and "\r" in the output are read as "\n".  A "\n" that
\* follows a "\r" is dropped, a "\r" becomes "\n", any other code point
\* stays; the translation of text[lo..hi] joins those of its two halves.
RECURSIVE translate_range(_, _, _)
translate_range(text, lo, hi) ==
    IF lo > hi THEN <<>>
    ELSE IF lo = hi
      THEN IF text[lo] = Newline /\ lo > 1 /\ text[lo - 1] = CarriageReturn THEN <<>>
           ELSE IF text[lo] = CarriageReturn THEN <<Newline>>
           ELSE <<text[lo]>>
    ELSE LET mid == (lo + hi) \div 2
         IN  translate_range(text, lo, mid) \o translate_range(text, mid + 1, hi)
translate_newlines(text) == translate_range(text, 1, Len(text))

\* str.strip(): leading and trailing whitespace removed.
strip(text) ==
    IF \A k \in 1..Len(text) : text[k] \in Whitespace THEN <<>>
    ELSE SubSeq(text,
                CHOOSE k \in 1..Len(text) :
                  text[k] \notin Whitespace /\ \A j \in 1..(k - 1) : text[j] \in Whitespace,
                CHOOSE k \in 1..Len(text) :
                  text[k] \notin Whitespace
                  /\ \A j \in (k + 1)..Len(text) : text[j] \in Whitespace)

is_digit(ch) == \E z \in DecimalZeros : ch \in z..(z + 9)
digit_value(ch) == ch - (CHOOSE z \in DecimalZeros : ch \in z..(z + 9))

\* int(ts) of a stripped string: an optional sign, then decimal digits with
\* single underscores allowed between them; anything else, and more than
\* IntMaxStrDigits digits, raises ValueError.
int_body(ts) == IF ts # <<>> /\ ts[1] \in {PlusSign, MinusSign} THEN Tail(ts) ELSE ts
int_raises(ts) ==
    LET body == int_body(ts)
    IN  \/ body = <<>>
        \/ ~is_digit(body[1])
        \/ ~is_digit(body[Len(body)])
        \/ \E k \in 1..Len(body) : ~is_digit(body[k]) /\ body[k] # Underscore
        \/ \E k \in 1..(Len(body) - 1) : body[k] = Underscore /\ body[k + 1] = Underscore
        \/ Cardinality({k \in 1..Len(body) : is_digit(body[k])}) > IntMaxStrDigits
RECURSIVE int_digits(_)
int_digits(body) ==
    IF body = <<>> THEN 0
    ELSE IF body[Len(body)] = Underscore
      THEN int_digits(SubSeq(body, 1, Len(body) - 1))
    ELSE 10 * int_digits(SubSeq(body, 1, Len(body) - 1)) + digit_value(body[Len(body)])
int(ts) ==
    IF ts[1] = MinusSign THEN 0 - int_digits(int_body(ts)) ELSE int_digits(int_body(ts))

\* The values of the decimal digits of int(ts), for line 163:
\* 'time.time() - last' converts last to a float.
RECURSIVE int_digit_values(_, _, _)
int_digit_values(body, lo, hi) ==
    IF lo > hi THEN <<>>
    ELSE IF lo = hi
      THEN IF body[lo] = Underscore THEN <<>> ELSE <<digit_value(body[lo])>>
    ELSE LET mid == (lo + hi) \div 2
         IN  int_digit_values(body, lo, mid) \o int_digit_values(body, mid + 1, hi)
age_days_raises(ts) ==
    float_raises(int_digit_values(int_body(ts), 1, Len(int_body(ts))))

\* The commit times the query may report under a threshold of 'days' (at the
\* cutoff, one second older, one second newer), and what it may print: a
\* timestamp, nothing, or other text that int accepts or rejects.
Timestamps(days) == {Now - days * SecondsPerDay + e : e \in {-1, 0, 1}}
HugeDigits == 310                   \* a number of 310 digits is no float
OtherOutputs ==
    { <<>>,
      [k \in 1..HugeDigits |-> IF k = 1 THEN DigitZero + 1 ELSE DigitZero],
      <<MinusSign, DigitZero + 5, Newline>>,              \* "-5\n"
      <<DigitZero + 7, Underscore, DigitZero + 7>>,        \* "7_7"
      <<DigitZero + 7, Underscore>>,                       \* "7_"
      <<1635, CarriageReturn, Newline>>,                   \* ARABIC-INDIC 3, "\r\n"
      <<12, DigitZero + 7, 9, Newline>> }                  \* "\f7\t\n"

\* Lines 161-163 on the output of the query: strip() of the text, then
\* whether int() raises ValueError, whether the subtraction from time.time()
\* raises OverflowError, and the value of 'last'.
read_ct(out) ==
    LET ts == strip(translate_newlines(out))
    IN  IF int_raises(ts) THEN [exc |-> "ValueError", last |-> 0]
        ELSE IF age_days_raises(ts) THEN [exc |-> "OverflowError", last |-> 0]
        ELSE [exc |-> "none", last |-> int(ts)]
\* What the program reads from the outputs of the query.
OtherReadings == {read_ct(out) : out \in OtherOutputs}
QueryReadings(days) ==
    {read_ct(format_ct(t)) : t \in Timestamps(days)} \cup OtherReadings

\* Line 164; gitmodules_exists is what (path / '.gitmodules').exists() answers.
\* 'or' and 'and' evaluate it only when t >= cut and update_submodules is set;
\* it answers, or raises PermissionError when the file cannot be looked up.
GitmodulesAnswers == {"exists", "missing", "PermissionError"}
\* What it can answer on the filesystem f: under a parent that cannot be
\* searched it raises, and in a directory that is gone it finds nothing.
gitmodules_answers(f, path) ==
    IF f[Parent] = "denied" THEN {"PermissionError"}
    ELSE IF f[path] = "absent" THEN {"missing"}
    ELSE GitmodulesAnswers
asks_gitmodules(t, cut, repo_cfg) == ~(t < cut) /\ repo_cfg.update_submodules
is_stale(t, cut, repo_cfg, gitmodules_exists) ==
    t < cut \/ (repo_cfg.update_submodules /\ gitmodules_exists)

\* Lines 151-154: one turn of the loop over self.config.repos; an exception
\* of the directory check is not caught.
report_stale_loop ==
    /\ pc = "stale_loop"
    /\ IF idx > Len(repos)
         THEN /\ pc' = "done"
              /\ UNCHANGED <<idx, status, exc>>
         ELSE IF is_dir(fs, repos[idx].path).exc # "none"
           THEN /\ exc' = is_dir(fs, repos[idx].path).exc
                /\ pc' = "aborted"
                /\ UNCHANGED <<idx, status>>
         ELSE IF ~is_dir(fs, repos[idx].path).value
           THEN /\ status' = [status EXCEPT ![idx] = "skipped"]
                /\ idx' = idx + 1
                /\ UNCHANGED <<pc, exc>>
           ELSE /\ pc' = "stale_query"
                /\ UNCHANGED <<idx, status, exc>>
    /\ UNCHANGED <<repos, dry_run, stale_days, fs, fs_changed, step, cutoff, last, gitmodules,
                   returncode, failed, child_failed, issued, described, launched, log>>
    /\ UNCHANGED loadVars

\* Lines 156-167: the last-commit query and the classification.
report_stale_query ==
    /\ pc = "stale_query"
    /\ LET repo_cfg == repos[idx]
           git_dir == repo_cfg.path
           raise(e, st) == /\ exc' = e
                           /\ pc' = "aborted"
                           /\ status' = [status EXCEPT ![idx] = st]
                           /\ UNCHANGED <<idx, log, last, gitmodules>>
       IN  \E can_exec \in BOOLEAN :
             IF ~subprocess_starts(fs, git_dir, can_exec)
               THEN \* OSError: not caught
                    /\ raise("OSError", "query_failed")
                    /\ UNCHANGED <<launched, returncode, child_failed, fs, fs_changed>>
               ELSE \E rc \in ReturnCodes, decodes \in BOOLEAN,
                       read \in QueryReadings(stale_days[1]),
                       left \in after_child(fs) :
                    LET t == read.last
                    IN
                    /\ launched' = Append(launched,
                            [cmd |-> GitLog, shell |-> FALSE, cwd |-> git_dir])
                    /\ fs' = left
                    /\ fs_changed' = (fs_changed \/ left # fs)
                    /\ child_failed' = (child_failed \/ rc # 0)
                    /\ IF ~decodes
                         THEN \* UnicodeDecodeError while reading the output,
                              \* before the exit code is looked at: not caught
                              /\ raise("UnicodeDecodeError", "query_failed")
                              /\ UNCHANGED returncode
                         ELSE /\ returncode' = rc
                              /\ IF rc # 0
                                   THEN \* CalledProcessError: caught at line 166
                                        /\ log' = Append(log, [kind |-> "NO_LAST_COMMIT",
                                                               path |-> git_dir])
                                        /\ status' = [status EXCEPT ![idx] = "query_failed"]
                                        /\ idx' = idx + 1
                                        /\ pc' = "stale_loop"
                                        /\ UNCHANGED <<exc, last, gitmodules>>
                                   ELSE IF read.exc = "ValueError"
                                     THEN \* line 162: not caught
                                          raise("ValueError", "query_failed")
                                   ELSE IF read.exc = "OverflowError"
                                     THEN \* line 163: not caught
                                          raise("OverflowError", "unclassified")
                                   ELSE \E answer \in
                                           (IF asks_gitmodules(t, cutoff, repo_cfg)
                                              THEN gitmodules_answers(left, git_dir)
                                              ELSE {"missing"}) :
                                        IF answer = "PermissionError"
                                          THEN \* line 164: not caught
                                               raise(answer, "unclassified")
                                          ELSE LET exists == answer = "exists"
                                                   stale == is_stale(t, cutoff, repo_cfg,
                                                                     exists)
                                               IN  /\ last' = t
                                                   /\ gitmodules' = exists
                                                   /\ log' = IF stale
                                                        THEN Append(log, [kind |-> "STALE",
                                                                          path |-> git_dir])
                                                        ELSE log
                                                   /\ status' = [status EXCEPT ![idx] =
                                                        IF stale THEN "stale" ELSE "fresh"]
                                                   /\ idx' = idx + 1
                                                   /\ pc' = "stale_loop"
                                                   /\ UNCHANGED exc
    /\ UNCHANGED <<repos, dry_run, stale_days, step, cutoff,
                   failed, issued, described>>
    /\ UNCHANGED loadVars

(***************************************************************************)
(* The environment.                                                        *)
(***************************************************************************)
\* While the program runs, a repository directory is removed (a path can
\* vanish between resolution and execution, and between a directory check
\* and a command).
remove_dir ==
    /\ pc \notin {"done", "aborted", "load", "loaded"}
    /\ \E p \in Paths :
         /\ fs[p] # "absent"
         /\ fs' = [fs EXCEPT ![p] = "absent"]
    /\ fs_changed' = TRUE
    /\ UNCHANGED <<repos, dry_run, stale_days, pc, idx, step, cutoff, last,
                   gitmodules, exc, returncode, failed, child_failed, status, issued,
                   described, launched, log>>
    /\ UNCHANGED loadVars

\* While the program runs, the parent directory loses its search
\* permission: from then on no repository path can be looked up and no
\* command can be started in one.
deny_search ==
    /\ pc \notin {"done", "aborted", "load", "loaded"}
    /\ fs[Parent] = "dir"
    /\ fs' = [fs EXCEPT ![Parent] = "denied"]
    /\ fs_changed' = TRUE
    /\ UNCHANGED <<repos, dry_run, stale_days, pc, idx, step, cutoff, last,
                   gitmodules, exc, returncode, failed, child_failed, status, issued,
                   described, launched, log>>
    /\ UNCHANGED loadVars

\* A repository directory that was removed is put back.
create_dir ==
    /\ pc \notin {"done", "aborted", "load", "loaded"}
    /\ \E p \in Paths :
         /\ fs[p] = "absent"
         /\ fs' = [fs EXCEPT ![p] = "dir"]
    /\ fs_changed' = TRUE
    /\ UNCHANGED <<repos, dry_run, stale_days, pc, idx, step, cutoff, last,
                   gitmodules, exc, returncode, failed, child_failed, status, issued,
                   described, launched, log>>
    /\ UNCHANGED loadVars

(***************************************************************************)
(* Spec: one invocation of GitAround(config, dry_run, stale_days).run().   *)
(***************************************************************************)
Flags == [auto_pull : BOOLEAN, auto_push : BOOLEAN, clean : BOOLEAN,
          update_submodules : BOOLEAN]
CommandLists == SeqsUpTo(ShellCommands, MaxCommands)

\* The flags and commands of a configuration entry.  Housekeeping mode takes
\* every combination of flags with at most one command, and every list of
\* commands with all tasks enabled, with the defaults and with no git task.
\* Staleness mode takes the entries that leave auto_pull, auto_push, clean
\* and commands at their defaults, and the entry that enables every task
\* and has commands; update_submodules varies in both.
AllTasks == [auto_pull |-> TRUE, auto_push |-> TRUE, clean |-> TRUE,
             update_submodules |-> TRUE]
DefaultTasks == [auto_pull |-> TRUE, auto_push |-> FALSE, clean |-> FALSE,
                 update_submodules |-> FALSE]
NoTasks == [auto_pull |-> FALSE, auto_push |-> FALSE, clean |-> FALSE,
            update_submodules |-> FALSE]
HousekeepingEntries ==
    {e \in Flags \X CommandLists :
        Len(e[2]) <= 1 \/ e[1] \in {AllTasks, DefaultTasks, NoTasks}}
StaleEntries ==
    {e \in Flags \X CommandLists :
        \/ e[1].auto_pull /\ ~e[1].auto_push /\ ~e[1].clean /\ e[2] = <<>>
        \/ /\ e[1] = AllTasks /\ Len(e[2]) = MaxCommands
           /\ \A k \in 1..Len(e[2]) : e[2][k] = "c1"}

\* The resolved lists: the expansion of one configuration entry into at most
\* MaxRepos paths, every plan carrying the entry's flags and commands.
RepoLists(entries) ==
    { [i \in 1..Len(ps) |->
          RepoConfig(ps[i], e[1].auto_pull, e[1].auto_push, e[1].clean,
                     e[1].update_submodules, e[2])] :
      ps \in SeqsUpTo(Paths, MaxRepos), e \in entries }

\* A threshold whose seconds are too large for a float: 10^310 days.
HugeThresholds == {Scaled(1, HugeDigits)}

Init ==
    /\ dry_run \in BOOLEAN
    /\ stale_days \in {None} \cup {Some(d) : d \in 0..MaxDays} \cup HugeThresholds
    /\ repos \in RepoLists(IF stale_days # None THEN StaleEntries
                           ELSE HousekeepingEntries)
    /\ fs = [p \in Paths \cup {Parent} |-> "dir"]
    /\ fs_changed = FALSE
    /\ pc = "run"
    /\ idx = 1
    /\ step = 1
    /\ cutoff = 0
    /\ last = -1
    /\ gitmodules = FALSE
    /\ exc = "none"
    /\ returncode = -1
    /\ failed = FALSE
    /\ child_failed = FALSE
    /\ status = [i \in 1..Len(repos) |-> "pending"]
    /\ issued = [i \in 1..Len(repos) |-> <<>>]
    /\ described = <<>>
    /\ launched = <<>>
    /\ log = <<>>
    /\ data = <<>>
    /\ disk = <<>>
    /\ entry_i = 0

Next ==
    \/ run
    \/ run_loop
    \/ process_git_task
    \/ process_command
    \/ process_push
    \/ report_stale_loop
    \/ report_stale_query
    \/ remove_dir
    \/ create_dir
    \/ deny_search

Spec == Init /\ [][Next]_vars


(***************************************************************************)
(* GitAroundConfig.load_from_file, lines 64-89.                            *)
(*                                                                         *)
(* A name is a sequence of characters, a path a sequence of names from the *)
(* root.  The disk is the sequence of its entries in directory-listing     *)
(* order; it holds no symbolic link, so resolve() changes no path.  An     *)
(* entry has a parent, a name, a kind ("dir" or "file"), git (whether it   *)
(* holds a .git directory) and perm, the permissions of a directory: "rx"  *)
(* (listed and searched), "r" (listed, not searched) or "x" (searched, not *)
(* listed).                                                                *)
(***************************************************************************)
Root == <<>>
Home == << <<"h">> >>                       \* Path.home()
Tilde == <<"~">>
GlobChars == {"*", "?", "["}

\* Path(raw_path).expanduser()
expanduser(raw_path) ==
    IF raw_path # <<>> /\ raw_path[1] = Tilde
      THEN Home \o SubSeq(raw_path, 2, Len(raw_path))
      ELSE raw_path

parent(path) == SubSeq(path, 1, Len(path) - 1)     \* Path.parent
name(path) == path[Len(path)]                      \* Path.name

\* Line 69: any(ch in raw_path for ch in ['*', '?', '['])
has_glob(raw_path) ==
    \E k \in 1..Len(raw_path) : \E j \in 1..Len(raw_path[k]) :
        raw_path[k][j] \in GlobChars

GitDir == <<".", "g", "i", "t">>             \* the name '.git'

\* What lies at a path: an entry of the disk, the .git directory of an entry
\* that holds one, or nothing.
kind_at(d, path) ==
    IF path = Root THEN "dir"
    ELSE IF \E k \in 1..Len(d) : Append(d[k].parent, d[k].name) = path
      THEN d[CHOOSE k \in 1..Len(d) : Append(d[k].parent, d[k].name) = path].kind
    ELSE IF /\ name(path) = GitDir
            /\ \E k \in 1..Len(d) : /\ Append(d[k].parent, d[k].name) = parent(path)
                                    /\ d[k].kind = "dir" /\ d[k].git
      THEN "dir"
    ELSE "missing"

\* Whether the directory at a path lacks the permission.
lacks(d, path, permission) ==
    \E k \in 1..Len(d) : /\ Append(d[k].parent, d[k].name) = path
                         /\ d[k].kind = "dir"
                         /\ d[k].perm # "rx" /\ d[k].perm # permission

\* Looking a path up fails with EACCES when a directory above it cannot be
\* searched.
stat_denied(d, path) ==
    \E k \in 1..(Len(path) - 1) : lacks(d, SubSeq(path, 1, k), "x")

\* Path.exists() and Path.is_dir() on the disk d: the answer, or the
\* PermissionError of a path that cannot be looked up.
disk_exists(d, path) ==
    IF stat_denied(d, path) THEN [exc |-> "PermissionError", value |-> FALSE]
    ELSE [exc |-> "none", value |-> kind_at(d, path) # "missing"]
disk_is_dir(d, path) ==
    IF stat_denied(d, path) THEN [exc |-> "PermissionError", value |-> FALSE]
    ELSE [exc |-> "none", value |-> kind_at(d, path) = "dir"]
\* (path / '.git').is_dir()
has_git_dir(d, path) == disk_is_dir(d, Append(path, GitDir))

\* Index of the ']' that closes the class opened at pat[1] = "[", 0 if none
\* (fnmatch.translate: a ']' right after '[' or '[!' is a member).
class_end(pat) ==
    LET from == IF Len(pat) >= 2 /\ pat[2] = "!" THEN 3 ELSE 2
        first == IF Len(pat) >= from /\ pat[from] = "]" THEN from + 1 ELSE from
        closing == {k \in first..Len(pat) : pat[k] = "]"}
    IN  IF closing = {} THEN 0 ELSE CHOOSE k \in closing : \A m \in closing : k <= m

\* fnmatch.fnmatch(name, pattern) on POSIX, for classes without ranges.
RECURSIVE fnmatch(_, _)
fnmatch(nm, pat) ==
    IF pat = <<>> THEN nm = <<>>
    ELSE IF pat[1] = "*"
      THEN fnmatch(nm, Tail(pat)) \/ (nm # <<>> /\ fnmatch(Tail(nm), pat))
    ELSE IF pat[1] = "?"
      THEN nm # <<>> /\ fnmatch(Tail(nm), Tail(pat))
    ELSE IF pat[1] = "[" /\ class_end(pat) # 0
      THEN LET e == class_end(pat)
               negated == pat[2] = "!"
               members == {pat[k] : k \in (IF negated THEN 3 ELSE 2)..(e - 1)}
           IN  /\ nm # <<>>
               /\ (nm[1] \in members) # negated
               /\ fnmatch(Tail(nm), SubSeq(pat, e + 1, Len(pat)))
    ELSE nm # <<>> /\ nm[1] = pat[1] /\ fnmatch(Tail(nm), Tail(pat))

\* The entries directly under base, in listing order; the .git directory of
\* a base that holds one is listed too.
RECURSIVE entries_under(_, _)
entries_under(d, base) ==
    IF d = <<>> THEN <<>>
    ELSE (IF d[1].parent = base THEN <<Append(base, d[1].name)>> ELSE <<>>)
         \o entries_under(Tail(d), base)
children(d, base) ==
    (IF kind_at(d, Append(base, GitDir)) = "dir" THEN <<Append(base, GitDir)>> ELSE <<>>)
    \o entries_under(d, base)

\* base.iterdir(): the children of a directory; a base that cannot be looked
\* up, is missing, is not a directory or cannot be listed raises.
iterdir(d, base) ==
    IF stat_denied(d, base) THEN [exc |-> "PermissionError", entries |-> <<>>]
    ELSE IF kind_at(d, base) = "missing"
      THEN [exc |-> "FileNotFoundError", entries |-> <<>>]
    ELSE IF kind_at(d, base) # "dir"
      THEN [exc |-> "NotADirectoryError", entries |-> <<>>]
    ELSE IF lacks(d, base, "r") THEN [exc |-> "PermissionError", entries |-> <<>>]
    ELSE [exc |-> "none", entries |-> children(d, base)]

\* Path.resolve(): the modelled paths are absolute and hold no link.
resolve(path) == path

\* Lines 72-74: the listed paths that match and hold a .git directory, or the
\* exception of the first .git test that raises ('and' tests .git only for a
\* name that matches).
RECURSIVE glob_matches(_, _, _)
glob_matches(d, listed, pattern) ==
    IF listed = <<>> THEN [exc |-> "none", paths |-> <<>>]
    ELSE LET matches == fnmatch(name(listed[1]), pattern)
             git == has_git_dir(d, listed[1])
         IN  IF matches /\ git.exc # "none" THEN [exc |-> git.exc, paths |-> <<>>]
             ELSE LET rest == glob_matches(d, Tail(listed), pattern)
                  IN  IF rest.exc # "none" THEN rest
                      ELSE [exc |-> "none",
                            paths |-> (IF matches /\ git.value
                                         THEN <<resolve(listed[1])>> ELSE <<>>)
                                      \o rest.paths]

\* dict.get(key, default)
entry_get(entry, key, default) ==
    IF key \in DOMAIN entry THEN entry[key] ELSE default

\* Lines 66-77: matched_paths of one entry, or the exception that ends the
\* resolution.
matched_paths(entry, d) ==
    LET raw_path == entry.path
        expanded == expanduser(raw_path)
    IN  IF has_glob(raw_path)
          THEN LET there == disk_exists(d, parent(expanded))
                   base == IF there.value THEN parent(expanded) ELSE Home
                   listed == iterdir(d, base)
               IN  IF there.exc # "none" THEN [exc |-> there.exc, paths |-> <<>>]
                   ELSE IF listed.exc # "none" THEN [exc |-> listed.exc, paths |-> <<>>]
                   ELSE glob_matches(d, listed.entries, name(expanded))
          ELSE LET dir == disk_is_dir(d, expanded)
               IN  [exc |-> dir.exc,
                    paths |-> IF dir.value THEN <<resolve(expanded)>> ELSE <<>>]

\* Lines 78-88: the RepoConfig of each matched path, appended in order.
RECURSIVE new_repos(_, _)
new_repos(entry, paths) ==
    IF paths = <<>> THEN <<>>
    ELSE << RepoConfig(paths[1],
                       entry_get(entry, "auto_pull", TRUE),
                       entry_get(entry, "auto_push", FALSE),
                       entry_get(entry, "clean", FALSE),
                       entry_get(entry, "update_submodules", FALSE),
                       entry_get(entry, "commands", <<>>)) >>
         \o new_repos(entry, Tail(paths))

\* One turn of the loop of line 65; an exception of the resolution ends
\* load_from_file.
load_entry ==
    /\ pc = "load"
    /\ entry_i <= Len(data)
    /\ LET matched == matched_paths(data[entry_i], disk)
       IN  IF matched.exc # "none"
             THEN /\ exc' = matched.exc
                  /\ pc' = "aborted"
                  /\ UNCHANGED <<repos, entry_i>>
             ELSE /\ repos' = repos \o new_repos(data[entry_i], matched.paths)
                  /\ entry_i' = entry_i + 1
                  /\ UNCHANGED <<pc, exc>>
    /\ UNCHANGED <<data, disk>>
    /\ UNCHANGED <<dry_run, stale_days, fs, fs_changed, idx, step, cutoff, last,
                   gitmodules, returncode, failed, child_failed, status, issued,
                   described, launched, log>>

\* Line 89: return cls(repos=repos).
load_return ==
    /\ pc = "load"
    /\ entry_i > Len(data)
    /\ pc' = "loaded"
    /\ UNCHANGED <<data, disk, entry_i, repos>>
    /\ UNCHANGED <<dry_run, stale_days, fs, fs_changed, idx, step, cutoff, last,
                   gitmodules, exc, returncode, failed, child_failed, status, issued,
                   described, launched, log>>

(***************************************************************************)
(* SpecLoad: one call of load_from_file on a parsed configuration.         *)
(***************************************************************************)
W == << <<"w">> >>                          \* a directory that may exist
NameA == <<"a">>
NameAB == <<"a", "b">>
NameB == <<"b">>

\* The 'path' values of the configuration.
RawPaths ==
    { Append(W, NameA),                     \* /w/a      literal
      Append(W, <<"*">>),                   \* /w/*
      Append(W, <<"[", "a", "]", "?">>),    \* /w/[a]?
      <<Tilde, NameA>>,                     \* ~/a       literal
      Append(Append(W, NameA), <<"*">>) }   \* /w/a/*    base missing, a file
                                            \*           or a directory

\* The optional fields of an entry: none, some, all.
OptionalFields ==
    { <<>>,
      [clean |-> TRUE, auto_pull |-> TRUE],
      [auto_pull |-> FALSE, auto_push |-> TRUE, clean |-> TRUE,
       update_submodules |-> TRUE, commands |-> <<"c1", "c2">>] }

ConfigEntries ==
    { [k \in {"path"} \cup DOMAIN o |-> IF k = "path" THEN r ELSE o[k]] :
      r \in RawPaths, o \in OptionalFields }

\* What may lie under /w: 'a' as a repository (that may lack a permission),
\* a plain directory or a file, 'ab' and 'b' as repositories.
ChildrenOfW ==
    { [parent |-> W, name |-> c[1], kind |-> c[2], git |-> c[3], perm |-> c[4]] :
      c \in { <<NameA, "dir", TRUE, "rx">>, <<NameA, "dir", TRUE, "r">>,
              <<NameA, "dir", TRUE, "x">>, <<NameA, "dir", FALSE, "rx">>,
              <<NameA, "file", FALSE, "rx">>,
              <<NameAB, "dir", TRUE, "rx">>,
              <<NameB, "dir", TRUE, "rx">> } }
Listings ==
    { l \in SeqsUpTo(ChildrenOfW, MaxListing) :
        \A k, m \in 1..Len(l) : k # m => l[k].name # l[m].name }

\* The disks: /w is missing, or is there, with or without a permission, with
\* at most MaxListing children in some listing order; the home directory is
\* missing, empty or holds a repository 'a'.
Perms == {"rx", "r", "x"}
Disks ==
    { w \o h :
      w \in {<<>>} \cup
            { <<[parent |-> Root, name |-> W[1], kind |-> "dir", git |-> FALSE,
                 perm |-> m]>> \o l :
              m \in Perms, l \in Listings },
      h \in { <<>>,
               <<[parent |-> Root, name |-> Home[1], kind |-> "dir", git |-> FALSE,
                  perm |-> "rx"]>>,
               <<[parent |-> Root, name |-> Home[1], kind |-> "dir", git |-> FALSE,
                  perm |-> "rx"],
                 [parent |-> Home, name |-> NameA, kind |-> "dir", git |-> TRUE,
                  perm |-> "rx"]>> } }

InitLoad ==
    /\ data \in SeqsUpTo(ConfigEntries, MaxEntries)
    /\ disk \in Disks
    /\ entry_i = 1
    /\ repos = <<>>
    /\ pc = "load"
    /\ dry_run = FALSE
    /\ stale_days = None
    /\ fs = [p \in Paths \cup {Parent} |-> "dir"]
    /\ fs_changed = FALSE
    /\ idx = 1
    /\ step = 1
    /\ cutoff = 0
    /\ last = -1
    /\ gitmodules = FALSE
    /\ exc = "none"
    /\ returncode = -1
    /\ failed = FALSE
    /\ child_failed = FALSE
    /\ status = <<>>
    /\ issued = <<>>
    /\ described = <<>>
    /\ launched = <<>>
    /\ log = <<>>

NextLoad ==
    \/ load_entry
    \/ load_return

SpecLoad == InitLoad /\ [][NextLoad]_vars

(***************************************************************************)
(* What the claims of Spec speak of.                                       *)
(***************************************************************************)
Housekeeping == stale_days = None
Staleness == stale_days # None

Call(cmd, shell, cwd) == [cmd |-> cmd, shell |-> shell, cwd |-> cwd]

IsPrefix(s, t) == Len(s) <= Len(t) /\ SubSeq(t, 1, Len(s)) = s

\* The sequence the specification prescribes for one plan.
ExpectedTasks(plan) ==
    (IF plan.auto_pull THEN <<Call(GitPull, FALSE, plan.path)>> ELSE <<>>)
    \o (IF plan.clean THEN <<Call(GitClean, FALSE, plan.path)>> ELSE <<>>)
    \o (IF plan.update_submodules
          THEN <<Call(GitSubmodule, FALSE, plan.path)>> ELSE <<>>)
    \o [k \in 1..Len(plan.commands) |-> Call(<<plan.commands[k]>>, TRUE, plan.path)]
    \o (IF plan.auto_push THEN <<Call(GitPush, FALSE, plan.path)>> ELSE <<>>)

\* The prescribed sequences of the plans 1..n that were not skipped, in order.
RECURSIVE ExpectedRun(_)
ExpectedRun(n) ==
    IF n = 0 THEN <<>>
    ELSE ExpectedRun(n - 1)
         \o (IF status[n] = "finished" THEN ExpectedTasks(repos[n]) ELSE <<>>)

\* The (command, working directory) pairs of a sequence of calls or lines.
Pairs(s) == [k \in 1..Len(s) |-> <<s[k].cmd, s[k].cwd>>]

AllEnabled(plan) ==
    plan.auto_pull /\ plan.clean /\ plan.update_submodules /\ plan.auto_push

HousekeepingCommands ==
    {GitPull, GitClean, GitSubmodule, GitPush} \cup {<<c>> : c \in ShellCommands}

(***************************************************************************)
(* C1: in housekeeping mode the commands handed to _run_command for a      *)
(* plan are, once the plan has been processed, exactly pull (iff           *)
(* auto_pull), clean (iff clean), submodule update (iff                    *)
(* update_submodules), the commands in list order, push (iff auto_push);   *)
(* while it is being processed they are a prefix of that sequence, so no   *)
(* command of a disabled task is issued and push precedes nothing; a plan  *)
(* not entered has been handed nothing.                                    *)
(***************************************************************************)
TaskOrder ==
    Housekeeping =>
      \A i \in 1..Len(repos) :
        /\ status[i] = "finished" => issued[i] = ExpectedTasks(repos[i])
        /\ status[i] = "entered" => IsPrefix(issued[i], ExpectedTasks(repos[i]))
        /\ status[i] \in {"pending", "skipped"} => issued[i] = <<>>

TaskOrderWitness ==
    /\ Housekeeping
    /\ \E i \in 1..Len(repos) :
         /\ status[i] = "finished"
         /\ AllEnabled(repos[i])
         /\ repos[i].commands = <<"c2", "c1">>
         /\ Len(issued[i]) = 6
         /\ issued[i][6].cmd = GitPush

(***************************************************************************)
(* C2: in a live housekeeping run, once a task has run and exited with a   *)
(* non-zero code the run is not aborted: it goes on to its end, and at its *)
(* end it has started every enabled task of every plan that was a          *)
(* directory at its turn, in order.                                        *)
(***************************************************************************)
FailureIsolation ==
    (Housekeeping /\ ~dry_run /\ child_failed) =>
      /\ pc # "aborted"
      /\ pc = "done" =>
           /\ \A i \in 1..Len(repos) : status[i] \in {"finished", "skipped"}
           /\ launched = ExpectedRun(Len(repos))

(***************************************************************************)
(* C3: a launch failure (the command cannot be started) does not abort a   *)
(* housekeeping run.                                                       *)
(***************************************************************************)
LaunchFailureRecovered ==
    Housekeeping => ~(exc = "OSError" /\ pc = "aborted")

(***************************************************************************)
(* C4: a housekeeping dry run starts no subprocess, and the (command,      *)
(* working directory) pairs it describes are, in order, those of the       *)
(* subprocesses a live run of the same plans on the same filesystem        *)
(* starts, whichever exit codes the live commands return.  PlannedRun is   *)
(* what a dry run describes; a live run in which every command was started *)
(* and exited has, when it ends, started exactly that.                     *)
(***************************************************************************)
RECURSIVE PlannedRun(_)
PlannedRun(n) ==
    IF n = 0 THEN <<>> ELSE PlannedRun(n - 1) \o ExpectedTasks(repos[n])

\* C4: on an unchanged filesystem, described (dry) and started (live) agree.
DryRunEquivalence ==
    Housekeeping =>
      /\ dry_run => launched = <<>>
      /\ ~dry_run => described = <<>>
      /\ ~fs_changed =>
            LET planned == Pairs(PlannedRun(Len(repos)))
                done == IF dry_run THEN Pairs(described) ELSE Pairs(launched)
            IN  /\ IsPrefix(done, planned)
                /\ (pc \in {"done", "aborted"} /\ exc # "OSError") => done = planned

(***************************************************************************)
(* C5: with the dry-run flag set no external command is started, in        *)
(* housekeeping mode and in staleness mode.                                *)
(***************************************************************************)
DryRunStartsNothing ==
    dry_run => launched = <<>>

(***************************************************************************)
(* C6: in staleness mode a repository whose query succeeded and that has   *)
(* no submodule override is reported stale iff its age is at least the     *)
(* threshold.                                                              *)
(***************************************************************************)
Classified == {i \in 1..Len(repos) : status[i] \in {"stale", "fresh"}}
LastClassified == CHOOSE i \in Classified : \A j \in Classified : j <= i

\* C6: without the submodule override, flagged stale iff age >= threshold.
StaleIffAgeAtLeastThreshold ==
    (Staleness /\ Classified # {}) =>
      LET i == LastClassified
      IN  ~(repos[i].update_submodules /\ gitmodules) =>
            (status[i] = "stale" <=> Now - last >= stale_days[1] * SecondsPerDay)

(***************************************************************************)
(* C7: in staleness mode a failed last-commit query (non-zero exit, no     *)
(* launch, output that is no timestamp) is reported for its repository,    *)
(* which is not flagged stale, and does not abort the run.                 *)
(***************************************************************************)
QueryFailureRecovered ==
    Staleness =>
      \A i \in 1..Len(repos) :
        status[i] = "query_failed" =>
          /\ pc # "aborted"
          /\ \E k \in 1..Len(log) :
               log[k] = [kind |-> "NO_LAST_COMMIT", path |-> repos[i].path]

(***************************************************************************)
(* C9: the modes exclude each other: with a staleness threshold (0         *)
(* included) no housekeeping command is handed to _run_command, described  *)
(* or started; without one no last-commit query is started and nothing is  *)
(* reported stale.                                                         *)
(***************************************************************************)
ModesExclusive ==
    /\ Staleness =>
         /\ \A i \in 1..Len(repos) : issued[i] = <<>>
         /\ described = <<>>
         /\ \A k \in 1..Len(launched) : launched[k].cmd \notin HousekeepingCommands
         /\ pc \notin {"repo_loop", "git_tasks", "commands", "push"}
    /\ Housekeeping =>
         /\ \A k \in 1..Len(launched) : launched[k].cmd # GitLog
         /\ \A k \in 1..Len(log) : log[k].kind = "NOT_A_DIRECTORY"
         /\ pc \notin {"stale_loop", "stale_query"}

ModesExclusiveWitness ==
    /\ stale_days = Some(0)
    /\ pc = "done"
    /\ Len(repos) = 2
    /\ AllEnabled(repos[1])
    /\ repos[1].commands # <<>>
    /\ Len(launched) = 2

(***************************************************************************)
(* C10: in housekeeping mode a plan whose path is not a directory at its   *)
(* turn is skipped with a warning and handed no command, and the loop goes *)
(* on with the next plan; a run that reaches its end has processed every   *)
(* plan that was not skipped.                                              *)
(***************************************************************************)
AtMissingPath ==
    /\ Housekeeping
    /\ pc = "repo_loop"
    /\ idx <= Len(repos)
    /\ fs[repos[idx].path] = "absent"

SkipStep ==
    /\ status' = [status EXCEPT ![idx] = "skipped"]
    /\ log' = Append(log, [kind |-> "NOT_A_DIRECTORY", path |-> repos[idx].path])
    /\ idx' = idx + 1
    /\ pc' = "repo_loop"
    /\ UNCHANGED <<issued, described, launched, exc>>

SkippedGetNothing ==
    Housekeeping =>
      /\ \A i \in 1..Len(repos) :
           status[i] = "skipped" =>
             /\ issued[i] = <<>>
             /\ idx > i
             /\ \E k \in 1..Len(log) :
                  log[k] = [kind |-> "NOT_A_DIRECTORY", path |-> repos[i].path]
      /\ Len(log) = Cardinality({i \in 1..Len(repos) : status[i] = "skipped"})
      /\ pc = "done" =>
           \A i \in 1..Len(repos) :
             status[i] = "skipped" \/ issued[i] = ExpectedTasks(repos[i])

\* C10: a plan at a missing path is skipped with a warning, gets no command,
\* and the loop moves on to the next plan.
MissingPathSkip ==
    /\ []SkippedGetNothing
    /\ [][(AtMissingPath /\ fs' = fs) => SkipStep]_vars


(***************************************************************************)
(* What the claim of SpecLoad speaks of.                                   *)
(***************************************************************************)
Defaults == [auto_pull |-> TRUE, auto_push |-> FALSE, clean |-> FALSE,
             update_submodules |-> FALSE, commands |-> <<>>]
FieldOf(entry, key) == IF key \in DOMAIN entry THEN entry[key] ELSE Defaults[key]

\* The resolved paths of each entry read, and the number of plans of the
\* first n.
Resolved == [e \in 1..(entry_i - 1) |-> matched_paths(data[e], disk).paths]
RECURSIVE PlansOfFirst(_, _)
PlansOfFirst(resolved, n) ==
    IF n = 0 THEN 0 ELSE PlansOfFirst(resolved, n - 1) + Len(resolved[n])

(***************************************************************************)
(* C8: resolution yields the list: it never ends without one, and the list *)
(* holds, for the entries read so far and in their order, one plan per     *)
(* resolved path of the entry in the order of its resolution, with the     *)
(* entry's fields and the defaults auto_pull = true, auto_push = clean =   *)
(* update_submodules = false, commands = [] for the omitted ones; an entry *)
(* with no resolved path adds nothing and a path resolved by several       *)
(* entries is kept once per entry.                                         *)
(***************************************************************************)
\* C8: one plan per (entry, resolved path), in order, with the defaults.
OnePlanPerEntryAndPath ==
    pc \in {"load", "loaded", "aborted"} =>
      LET resolved == Resolved
      IN  /\ Len(repos) = PlansOfFirst(resolved, entry_i - 1)
          /\ \A e \in 1..(entry_i - 1) : \A j \in 1..Len(resolved[e]) :
               LET plan == repos[PlansOfFirst(resolved, e - 1) + j]
               IN  /\ plan.path = resolved[e][j]
                   /\ plan.auto_pull = FieldOf(data[e], "auto_pull")
                   /\ plan.auto_push = FieldOf(data[e], "auto_push")
                   /\ plan.clean = FieldOf(data[e], "clean")
                   /\ plan.update_submodules = FieldOf(data[e], "update_submodules")
                   /\ plan.commands = FieldOf(data[e], "commands")
          /\ pc = "loaded" => entry_i = Len(data) + 1
          /\ pc # "aborted"

====
